---- MODULE Spec2Model ----
(***************************************************************************)
(* Model of x/programs/rust/wasmlanche-sdk/src/memory.rs: the allocation   *)
(* table GLOBAL_STORE, the handle codec to_host_ptr, the exported          *)
(* allocator alloc and the reclaim path into_bytes / from_host_ptr.        *)
(*                                                                         *)
(* Widths are scaled: a u32 field of the handle has HalfBits bits, the i64 *)
(* handle has 2*HalfBits bits, and a build has pointers of HalfBits bits   *)
(* (the wasm32 target) or of 2*HalfBits bits (a native build, where the    *)
(* crate's tests run).  The heap is the cells 1..MemSize; 0 is null.       *)
(***************************************************************************)
EXTENDS Integers, Sequences, FiniteSets, TLC

VARIABLES
    ptrBits,        \* width of usize / of a pointer in this build
    GLOBAL_STORE,   \* per thread: address -> tracked length (thread_local!)
    heap,           \* the global allocator: base address -> size of a live block
    mem,            \* contents of the heap cells
    owned,          \* Vec<u8> values returned by into_bytes and not yet dropped
    alive,          \* per thread: FALSE once a panic or an abort has ended it
    taken,          \* history: addresses reclaimed since the latest call of alloc
    pattern,        \* history: address -> the pattern last written over the whole block
    last            \* history: the call that completed last, and its outcome

vars == <<ptrBits, GLOBAL_STORE, heap, mem, owned, alive, taken, pattern, last>>

(* ------------------------------- bounds -------------------------------- *)
HalfBits == 2
MemSize == 2
NumThreads == 2

Threads == 1..NumThreads
Main == 1
\* byte values the host writes or an allocation holds: 1 is the borsh encoding of
\* true, 2 encodes no bool; free cells are kept at 0
Byte == {1, 2}
Cells == 1..MemSize

(* --------------------------- integer widths ---------------------------- *)
RECURSIVE Pow2(_)
Pow2(n) == IF n = 0 THEN 1 ELSE 2 * Pow2(n - 1)

U32_MAX == Pow2(HalfBits) - 1
I64_MAX == Pow2(2 * HalfBits - 1) - 1
I64_MIN == 0 - Pow2(2 * HalfBits - 1)
PtrWidths == {HalfBits, 2 * HalfBits}
UsizeMax(w) == Pow2(w) - 1
IsizeMax(w) == Pow2(w - 1) - 1

\* `v as usize` for an i64 v: two's complement, truncated to the pointer width
AsUsize(v, w) == v % Pow2(w)
\* reinterpretation of a 2*HalfBits-bit pattern as a signed i64
AsI64(u) == IF u > I64_MAX THEN u - Pow2(2 * HalfBits) ELSE u

(* ------------------------------ results -------------------------------- *)
None == [some |-> FALSE, v |-> 0]
Some(x) == [some |-> TRUE, v |-> x]
Ok(x) == [ok |-> TRUE, v |-> x, err |-> "none"]
Err(e) == [ok |-> FALSE, v |-> 0, err |-> e]

(* --------------------------- HashMap helpers --------------------------- *)
EmptyMap == [a \in {} |-> 0]
HashMapGet(s, k) == IF k \in DOMAIN s THEN Some(s[k]) ELSE None
HashMapInsert(s, k, v) == [a \in DOMAIN s \cup {k} |-> IF a = k THEN v ELSE s[a]]
\* a lookup that leaves the entry in place
HashMapRemove_keep(s, k) == [map |-> s, out |-> HashMapGet(s, k)]
\* s.remove(&k): the map without k, and the value k had
HashMapRemove(s, k) == [map |-> [a \in DOMAIN s \ {k} |-> s[a]], out |-> HashMapGet(s, k)]

(* ------------------------------ the codec ------------------------------ *)
\* an encoder without the range check: both fields are cut to their width
to_host_ptr_truncating(ptr, len) ==
    Ok(AsI64((ptr % Pow2(HalfBits)) + (len % Pow2(HalfBits)) * Pow2(HalfBits)))
\* an encoder that widens the address as a signed value (ptr as i32), so that an
\* address with its top bit set fills the length field with ones
to_host_ptr_signed(ptr, len) ==
    IF ptr > U32_MAX \/ len > U32_MAX
    THEN Err("IntegerConversion")
    ELSE IF ptr >= Pow2(HalfBits - 1) THEN Ok(ptr - Pow2(HalfBits))
    ELSE Ok(AsI64(ptr + len * Pow2(HalfBits)))
\* to_host_ptr on a slice with data pointer ptr and length len
to_host_ptr(ptr, len) ==
    IF ptr > U32_MAX \/ len > U32_MAX
    THEN Err("IntegerConversion")
    ELSE Ok(AsI64(ptr + len * Pow2(HalfBits)))

\* `ptr as *const u8` / `ptr as *mut u8` for ptr : HostPtr
PtrOf(h, w) == AsUsize(h, w)

\* the host's reading of a handle: <<bits 0..31, bits 32..63>> of the bit pattern
decode(h) ==
    LET u == h % Pow2(2 * HalfBits) IN <<u % Pow2(HalfBits), u \div Pow2(HalfBits)>>

(* --------------------------- the global heap --------------------------- *)
Block(p, n) == p..(p + n - 1)
UsedCells == UNION {Block(p, heap[p]) : p \in DOMAIN heap}
\* what std::alloc::alloc may return for a layout of n bytes: a free range, or null
AllocResults(n) ==
    {p \in Cells : Block(p, n) \subseteq Cells /\ Block(p, n) \cap UsedCells = {}} \cup {0}
\* reading n bytes at p; a read outside the heap cells yields 0 here
BytesAt(m, p, n) == [i \in 1..n |-> IF p + i - 1 \in Cells THEN m[p + i - 1] ELSE 0]

\* a Vec one byte short of the region
VecFromRawParts_short(p, length, capacity) == [ptr |-> p, len |-> length - 1, cap |-> capacity]
\* Vec::from_raw_parts(ptr, length, capacity)
VecFromRawParts(p, length, capacity) == [ptr |-> p, len |-> length, cap |-> capacity]

(* ----------------------------- borsh, V = bool ------------------------- *)
from_slice(bytes) ==
    IF Len(bytes) = 0 THEN Err("Deserialization")
    ELSE IF bytes[1] > 1 THEN Err("Deserialization")
    ELSE IF Len(bytes) > 1 THEN Err("Deserialization")
    ELSE Ok(bytes[1])

(* ------------------------------ history -------------------------------- *)
Tracked == UNION {DOMAIN GLOBAL_STORE[t] : t \in Threads}
\* op, t: the call and its thread; h, key: the handle passed and the address it was
\* cast to; ptr, len, cap, bytes: the Vec built (or, for alloc and to_host_ptr, the
\* argument and the result); deref: a Vec was built from the address; again: the
\* address (for alloc, the one returned) had been reclaimed since the alloc before; pat: the pattern written at
\* the address; pre, heap0: GLOBAL_STORE and heap when the call began
NoCall ==
    [op |-> "none", t |-> Main, h |-> 0, key |-> 0, res |-> "none", ptr |-> 0, len |-> 0,
     cap |-> 0, bytes |-> <<>>, deref |-> FALSE, again |-> FALSE, pat |-> <<>>,
     pre |-> [t \in Threads |-> EmptyMap], heap0 |-> EmptyMap]
Call(op, t) == [NoCall EXCEPT !.op = op, !.t = t, !.pre = GLOBAL_STORE, !.heap0 = heap]

(* ------------------------------ initial state -------------------------- *)
Init ==
    /\ ptrBits \in PtrWidths
    /\ GLOBAL_STORE = [t \in Threads |-> EmptyMap]
    /\ heap = EmptyMap
    /\ mem = [c \in Cells |-> 0]
    /\ owned = {}
    /\ alive = [t \in Threads |-> TRUE]
    /\ taken = {}
    /\ pattern = EmptyMap
    /\ last = NoCall

(* ------------------------------- inputs -------------------------------- *)
AllocLens(w) ==
    ((0..(MemSize + 1)) \cup {IsizeMax(w), IsizeMax(w) + 1, UsizeMax(w)}) \cap (0..UsizeMax(w))
\* handles passed to the reclaimer on thread t: a bare address (`ptr as i64`), the
\* codec's handle for a tracked buffer, a handle with the top bit set, and -1
HandleInputs(t) ==
    (0..MemSize)
        \cup {to_host_ptr(a, GLOBAL_STORE[t][a]).v : a \in DOMAIN GLOBAL_STORE[t]}
        \cup {to_host_ptr(1, Pow2(HalfBits - 1)).v, 0 - 1}
SliceInputs(w) == {1, U32_MAX + 1} \cap (0..UsizeMax(w))

(* ---------------------------- GLOBAL_STORE ----------------------------- *)
\* one table shared by every thread (a plain static)
WithBorrow_static(G, t) == G[Main]
\* thread_local!: the table the calling thread sees, and the stores after it changed it
WithBorrow(G, t) == G[t]
WithBorrowMut(G, t, s) == [G EXCEPT ![t] = s]
\* an insert that records one byte less than was allocated
StoreInsert_short(s, ptr, len) == HashMapInsert(s, ptr, len - 1)
\* an alloc that forgets to record the allocation
StoreInsert_none(s, ptr, len) == s
\* s.insert(ptr, len) in alloc
\* a store that forgets its other entries when it registers one
StoreInsert_fresh(s, ptr, len) == HashMapInsert(EmptyMap, ptr, len)
\* a store that keeps the entry an address already has (entry().or_insert(len))
StoreInsert_keep(s, ptr, len) == IF ptr \in DOMAIN s THEN s ELSE HashMapInsert(s, ptr, len)
StoreInsert(s, ptr, len) == HashMapInsert(s, ptr, len)

(* ------------------------------- alloc --------------------------------- *)
\* an assertion that lets 0 through
AssertLen_ge0(len) == len >= 0
\* assert!(len > 0, ..)
AssertLen(len) == len > 0

\* a layout built without the size check (Layout::from_size_align_unchecked)
LayoutArray_unchecked(len, w) == Ok(len)
\* Layout::array::<u8>(len)
LayoutArray(len, w) == IF len > IsizeMax(w) THEN Err("capacity overflow") ELSE Ok(len)

\* a panic ends the calling thread; nothing the thread did before is undone
Panic(t, call, msg) ==
    /\ alive' = [alive EXCEPT ![t] = FALSE]
    /\ last' = [call EXCEPT !.res = msg]
    /\ UNCHANGED <<ptrBits, GLOBAL_STORE, heap, mem, owned, taken, pattern>>

\* std::alloc::handle_alloc_error aborts the process
Abort(t, call) ==
    /\ alive' = [u \in Threads |-> FALSE]
    /\ last' = [call EXCEPT !.res = "abort: alloc error"]
    /\ taken' = {}
    /\ UNCHANGED <<ptrBits, GLOBAL_STORE, heap, mem, owned, pattern>>

\* alloc(len) called on thread t
alloc(t, len) ==
    /\ alive[t]
    /\ LET call == [Call("alloc", t) EXCEPT !.len = len] IN
       IF ~AssertLen(len) THEN Panic(t, call, "panic: cannot allocate 0 sized data")
       ELSE IF ~LayoutArray(len, ptrBits).ok THEN Panic(t, call, "panic: capacity overflow")
       ELSE \E p \in AllocResults(len) :
              IF p = 0 THEN Abort(t, call)
              ELSE \E init \in [Block(p, len) -> Byte] :
                     /\ heap' = HashMapInsert(heap, p, len)
                     /\ mem' = [c \in Cells |-> IF c \in Block(p, len) THEN init[c] ELSE mem[c]]
                     /\ GLOBAL_STORE' = WithBorrowMut(GLOBAL_STORE, t,
                                                       StoreInsert(WithBorrow(GLOBAL_STORE, t), p, len))
                     /\ taken' = {}
                     /\ last' = [call EXCEPT !.res = "ok", !.ptr = p, !.again = p \in taken]
                     /\ UNCHANGED <<ptrBits, owned, alive, pattern>>

(* ------------------------------ reclaim -------------------------------- *)
\* a reclaimer that trusts the address and builds the Vec whether it is tracked or not
IntoBytes_unchecked(s, h, w) ==
    LET r == HashMapRemove(s, PtrOf(h, w)) IN
    [store |-> r.map,
     vec |-> Some(VecFromRawParts(PtrOf(h, w), r.out.v, r.out.v))]
\* a reclaimer that reads the entry (s.get) without removing it
IntoBytes_get(s, h, w) ==
    LET r == HashMapGet(s, PtrOf(h, w)) IN
    [store |-> s,
     vec |-> IF r.some THEN Some(VecFromRawParts(PtrOf(h, w), r.v, r.v)) ELSE None]
\* a reclaimer that sizes the Vec by the length field of the handle
IntoBytes_handle_len(s, h, w) ==
    LET r == HashMapRemove(s, PtrOf(h, w)) IN
    [store |-> r.map,
     vec |-> IF r.out.some
             THEN Some(VecFromRawParts(PtrOf(h, w), decode(h)[2], decode(h)[2]))
             ELSE None]
\* into_bytes as a value: the store afterwards and the Option<Vec<u8>> returned
IntoBytes(s, h, w) ==
    LET r == HashMapRemove(s, PtrOf(h, w)) IN
    [store |-> r.map,
     vec |-> IF r.out.some THEN Some(VecFromRawParts(PtrOf(h, w), r.out.v, r.out.v)) ELSE None]

\* what a reclaiming call records of the state it started in
Reclaim(op, t, h) ==
    LET key == PtrOf(h, ptrBits) IN
    [Call(op, t) EXCEPT
        !.h = h, !.key = key, !.again = key \in taken,
        !.pat = IF key \in DOMAIN pattern THEN pattern[key] ELSE <<>>]

\* the Vec<u8> the call built: where it points and what it holds
Got(call, v) ==
    [call EXCEPT !.ptr = v.ptr, !.len = v.len, !.cap = v.cap, !.deref = TRUE,
                 !.bytes = BytesAt(mem, v.ptr, v.len)]

\* a direct call of into_bytes (tests::data_allocation); the caller keeps the Vec
into_bytes(t, h) ==
    /\ alive[t]
    /\ LET r == IntoBytes(WithBorrow(GLOBAL_STORE, t), h, ptrBits) IN
       /\ GLOBAL_STORE' = WithBorrowMut(GLOBAL_STORE, t, r.store)
       /\ IF r.vec.some
          THEN /\ owned' = owned \cup {r.vec.v}
               /\ taken' = taken \cup {r.vec.v.ptr}
               /\ pattern' = HashMapRemove(pattern, r.vec.v.ptr).map
               /\ last' = [Got(Reclaim("into_bytes", t, h), r.vec.v) EXCEPT !.res = "Some"]
          ELSE /\ last' = [Reclaim("into_bytes", t, h) EXCEPT !.res = "None"]
               /\ UNCHANGED <<owned, taken, pattern>>
    /\ UNCHANGED <<ptrBits, heap, mem, alive>>

\* dropping a Vec<u8> returns its region to the global allocator
Dealloc(v) ==
    /\ heap' = HashMapRemove(heap, v.ptr).map
    /\ mem' = [c \in Cells |-> IF c \in Block(v.ptr, v.cap) THEN 0 ELSE mem[c]]

drop_vec(v) ==
    /\ v \in owned
    /\ owned' = owned \ {v}
    /\ Dealloc(v)
    /\ UNCHANGED <<ptrBits, GLOBAL_STORE, alive, taken, pattern, last>>

\* a decoder that unwraps the parse, as the "# Panics" section of the doc comment says
MapErr_expect(d) == IF d.ok THEN "Ok" ELSE "panic: deserialization"
\* from_slice(..).map_err(|_| StateError::Deserialization), as the result's name
MapErr(d) == IF d.ok THEN "Ok" ELSE "Deserialization"

\* from_host_ptr::<bool>(h) called on thread t; `bytes` is dropped when the arm ends
from_host_ptr(t, h) ==
    /\ alive[t]
    /\ LET r == IntoBytes(WithBorrow(GLOBAL_STORE, t), h, ptrBits) IN
       /\ GLOBAL_STORE' = WithBorrowMut(GLOBAL_STORE, t, r.store)
       /\ IF r.vec.some
          THEN LET got == Got(Reclaim("from_host_ptr", t, h), r.vec.v)
                   d == from_slice(got.bytes) IN
               /\ Dealloc(r.vec.v)
               /\ taken' = taken \cup {r.vec.v.ptr}
               /\ pattern' = HashMapRemove(pattern, r.vec.v.ptr).map
               /\ last' = [got EXCEPT !.res = MapErr(d)]
          ELSE /\ last' = [Reclaim("from_host_ptr", t, h) EXCEPT !.res = "InvalidPointer"]
               /\ UNCHANGED <<heap, mem, taken, pattern>>
    /\ UNCHANGED <<ptrBits, owned, alive>>

(* ------------------------------- the host ------------------------------ *)
\* the host fills a buffer it got from alloc (std::ptr::copy(vec.as_ptr(), ptr, vec.len()))
write(t, a, pat) ==
    /\ a \in DOMAIN GLOBAL_STORE[t]
    /\ DOMAIN pat = 1..GLOBAL_STORE[t][a]
    /\ mem' = [c \in Cells |-> IF c \in Block(a, Len(pat)) THEN pat[c - a + 1] ELSE mem[c]]
    /\ pattern' = HashMapInsert(pattern, a, pat)
    /\ UNCHANGED <<ptrBits, GLOBAL_STORE, heap, owned, alive, taken, last>>

\* an encoder that registers the slice it encodes
encode_tracking(t, ptr, len) ==
    /\ alive[t]
    /\ LET r == to_host_ptr(ptr, len) IN
       /\ last' = [Call("to_host_ptr", t) EXCEPT
                      !.ptr = ptr, !.len = len, !.h = r.v,
                      !.res = IF r.ok THEN "Ok" ELSE r.err]
       /\ GLOBAL_STORE' = IF r.ok
                          THEN WithBorrowMut(GLOBAL_STORE, t,
                                             StoreInsert(WithBorrow(GLOBAL_STORE, t), ptr, len))
                          ELSE GLOBAL_STORE
    /\ UNCHANGED <<ptrBits, heap, mem, owned, alive, taken, pattern>>
\* to_host_ptr called on thread t with a slice at ptr of len bytes
encode(t, ptr, len) ==
    /\ alive[t]
    /\ LET r == to_host_ptr(ptr, len) IN
       last' = [Call("to_host_ptr", t) EXCEPT
                   !.ptr = ptr, !.len = len, !.h = r.v,
                   !.res = IF r.ok THEN "Ok" ELSE r.err]
    /\ UNCHANGED <<ptrBits, GLOBAL_STORE, heap, mem, owned, alive, taken, pattern>>

(* ------------------------------ the system ----------------------------- *)
Next ==
    \/ \E len \in AllocLens(ptrBits) : alloc(Main, len)
    \/ \E h \in HandleInputs(Main) : into_bytes(Main, h)
    \/ \E v \in owned : drop_vec(v)
    \/ \E h \in HandleInputs(Main) : from_host_ptr(Main, h)
    \/ \E a \in Cells : \E n \in 1..MemSize : \E pat \in [1..n -> Byte] : write(Main, a, pat)
    \/ \E ptr \in SliceInputs(ptrBits) : \E len \in SliceInputs(ptrBits) :
          encode(Main, ptr, len)

\* one thread of control: the guest runs single-threaded per invocation
Spec == Init /\ [][Next]_vars

\* several threads of one process calling alloc and the reclaimer with the addresses
\* alloc returned (`ptr as i64`); the heap is the process's, GLOBAL_STORE each thread's
NextThreads ==
    \/ \E t \in Threads : \E len \in 1..MemSize : alloc(t, len)
    \/ \E t \in Threads : \E a \in Cells : into_bytes(t, a)
    \/ \E v \in owned : drop_vec(v)
    \/ \E t \in Threads : \E a \in Cells : from_host_ptr(t, a)

SpecThreads == Init /\ [][NextThreads]_vars

\* to_host_ptr as a function: one call, on any slice the build can describe
CodecInputs(w) == 0..UsizeMax(w)
NextCodec ==
    \E ptr \in CodecInputs(ptrBits) : \E len \in CodecInputs(ptrBits) :
        last.op = "none" /\ encode(Main, ptr, len)

SpecCodec == Init /\ [][NextCodec]_vars

\* the registration alone, GLOBAL_STORE.with_borrow_mut(|s| s.insert(ptr, len)), as a
\* function of the table: any address, tracked or not, with any length
RecordLens == 1..(MemSize + 1)
record(t, ptr, len) ==
    /\ alive[t]
    /\ GLOBAL_STORE' = WithBorrowMut(GLOBAL_STORE, t,
                                      StoreInsert(WithBorrow(GLOBAL_STORE, t), ptr, len))
    /\ last' = [Call("insert", t) EXCEPT !.ptr = ptr, !.len = len]
    /\ UNCHANGED <<ptrBits, heap, mem, owned, alive, taken, pattern>>
NextRecord == \E ptr \in Cells : \E len \in RecordLens : record(Main, ptr, len)

SpecRecord == Init /\ [][NextRecord]_vars

TypeOK ==
    /\ ptrBits \in PtrWidths
    /\ \A t \in Threads : DOMAIN GLOBAL_STORE[t] \subseteq Cells
    /\ DOMAIN heap \subseteq Cells
    /\ alive \in [Threads -> BOOLEAN]

(* ------------------------------ the claims ----------------------------- *)
Reclaims == {"into_bytes", "from_host_ptr"}
\* a reclaim that found no entry / one that found the entry and built the buffer
NotFound == {"None", "InvalidPointer"}
Reclaimed == {"Some", "Ok", "Deserialization"}
Fatal == {"panic: cannot allocate 0 sized data", "panic: capacity overflow",
          "abort: alloc error"}
\* the live blocks of the heap that no reclaimed Vec owns
Outstanding == DOMAIN heap \ {v.ptr : v \in owned}
\* the heap holds no block that it did not hold when the last call began
NoNewBlock == \A a \in DOMAIN heap : a \in DOMAIN last.heap0 /\ heap[a] = last.heap0[a]
\* whether a byte sequence is the borsh encoding of a bool
ParsesAsBool(bytes) == Len(bytes) = 1 /\ bytes[1] \in {0, 1}

\* C1: a reclaim of an address that was already reclaimed since the latest alloc
\* fails (None / InvalidPointer), builds no buffer, and the address has no entry.
C1_ReclaimOneShot ==
    (last.op \in Reclaims /\ last.again) =>
        /\ last.res = (IF last.op = "into_bytes" THEN "None" ELSE "InvalidPointer")
        /\ ~last.deref
        /\ last.key \notin DOMAIN GLOBAL_STORE[last.t]
\* a second reclaim of a reclaimed address has been made, while another buffer is tracked
C1_Witness ==
    /\ last.op \in Reclaims /\ last.again /\ last.res \in NotFound
    /\ last.key \in Cells
    /\ DOMAIN GLOBAL_STORE[last.t] # {}

\* C2: a reclaim of an address with no entry in the caller's tracker fails with
\* None / InvalidPointer, builds no buffer from the address (so frees none), and leaves
\* the tracker as it was.
C2_UntrackedFailsCleanly ==
    (last.op \in Reclaims /\ last.key \notin DOMAIN last.pre[last.t]) =>
        /\ last.res = (IF last.op = "into_bytes" THEN "None" ELSE "InvalidPointer")
        /\ ~last.deref /\ last.ptr = 0 /\ last.bytes = <<>>
        /\ GLOBAL_STORE = last.pre
        /\ Tracked \subseteq DOMAIN heap
\* a heap address that is live but not tracked (its buffer was reclaimed and is still
\* owned) has been passed to the reclaimer, with another buffer tracked
C2_Witness ==
    /\ last.op = "from_host_ptr" /\ last.res = "InvalidPointer"
    /\ last.key \in DOMAIN heap
    /\ last.key \notin DOMAIN last.pre[last.t]
    /\ DOMAIN last.pre[last.t] # {}

\* C3: an alloc of a length the build can lay out (1..isize::MAX) that the allocator
\* satisfies returns a non-null address, the tracker maps that address to exactly the
\* length asked for, and the tracker has exactly one entry more than before.
C3_AllocRecords ==
    (last.op = "alloc" /\ last.len >= 1 /\ last.len <= IsizeMax(ptrBits)
        /\ last.res # "abort: alloc error") =>
        /\ last.res = "ok"
        /\ last.ptr # 0
        /\ last.ptr \in DOMAIN GLOBAL_STORE[last.t]
        /\ GLOBAL_STORE[last.t][last.ptr] = last.len
        /\ last.ptr \notin DOMAIN last.pre[last.t]
        /\ DOMAIN GLOBAL_STORE[last.t] = DOMAIN last.pre[last.t] \cup {last.ptr}
\* an alloc has returned the second cell while another buffer was tracked
C3_Witness ==
    /\ last.op = "alloc" /\ last.res = "ok"
    /\ last.ptr = 2 /\ last.len = 1
    /\ DOMAIN last.pre[last.t] # {}

\* C4: the tracked addresses are exactly the addresses alloc returned that have not been
\* reclaimed, each tracked by one thread only and with the size of its block.
C4_TrackerIsOutstanding ==
    /\ Tracked = Outstanding
    /\ \A t, u \in Threads : t # u => DOMAIN GLOBAL_STORE[t] \cap DOMAIN GLOBAL_STORE[u] = {}
    /\ \A t \in Threads : \A a \in DOMAIN GLOBAL_STORE[t] : GLOBAL_STORE[t][a] = heap[a]
\* one buffer is tracked while another has been reclaimed and is still owned
C4_Witness ==
    /\ Tracked # {}
    /\ owned # {}
    /\ last.op \in Reclaims /\ last.res \in Reclaimed

\* C5: a reclaim given the codec's handle for a tracked (address, length) returns the
\* buffer at that address and removes the address's entry.
C5_HandleResolvesToAddress ==
    \A a \in Cells :
        (/\ last.op \in Reclaims
         /\ a \in DOMAIN last.pre[last.t]
         /\ to_host_ptr(a, last.pre[last.t][a]).ok
         /\ last.h = to_host_ptr(a, last.pre[last.t][a]).v) =>
            /\ last.res \in Reclaimed
            /\ last.ptr = a
            /\ a \notin DOMAIN GLOBAL_STORE[last.t]

C7_ReclaimReturnsPattern ==
    (last.op \in Reclaims /\ last.res \in Reclaimed /\ last.pat # <<>>) =>
        /\ last.bytes = last.pat
        /\ Len(last.bytes) = last.pre[last.t][last.key]
        /\ last.ptr = last.key
        /\ last.key \notin Tracked
\* into_bytes has returned a two-byte pattern of different bytes
C7_Witness ==
    /\ last.op = "into_bytes" /\ last.res = "Some"
    /\ last.pat = <<1, 2>>
    /\ last.bytes = <<1, 2>>

\* C8: alloc(0) panics with "cannot allocate 0 sized data": it returns no address, ends
\* the invocation, changes no tracker entry and allocates nothing.
C8_ZeroAllocPanics ==
    (last.op = "alloc" /\ last.len = 0) =>
        /\ last.res = "panic: cannot allocate 0 sized data"
        /\ last.ptr = 0
        /\ ~alive[last.t]
        /\ GLOBAL_STORE = last.pre
        /\ NoNewBlock
\* alloc(0) was called while a buffer was tracked
C8_Witness ==
    /\ last.op = "alloc" /\ last.len = 0 /\ last.res \in Fatal
    /\ DOMAIN last.pre[last.t] # {}

\* C9: alloc of a length above isize::MAX panics with "capacity overflow" before the
\* allocator is asked: no address is returned, nothing is allocated, the tracker is unchanged.
C9_OversizeAllocPanics ==
    (last.op = "alloc" /\ last.len > IsizeMax(ptrBits)) =>
        /\ last.res = "panic: capacity overflow"
        /\ last.ptr = 0
        /\ ~alive[last.t]
        /\ GLOBAL_STORE = last.pre
        /\ NoNewBlock
\* alloc(usize::MAX) was called while a buffer was tracked
C9_Witness ==
    /\ last.op = "alloc" /\ last.len = UsizeMax(ptrBits) /\ last.res \in Fatal
    /\ DOMAIN last.pre[last.t] # {}

C11_EncodeRangeChecked ==
    last.op = "to_host_ptr" =>
        /\ last.res \in {"Ok", "IntegerConversion"}
        /\ last.res = "IntegerConversion" <=> (last.ptr > U32_MAX \/ last.len > U32_MAX)
        /\ last.res = "IntegerConversion" => last.h = 0
        /\ last.res = "Ok" =>
              /\ last.ptr <= U32_MAX /\ last.len <= U32_MAX
              /\ last.h \in I64_MIN..I64_MAX
\* to_host_ptr has refused a slice whose address fits and whose length does not
C11_Witness ==
    /\ last.op = "to_host_ptr" /\ last.res = "IntegerConversion"
    /\ last.ptr <= U32_MAX /\ last.ptr > 0
    /\ last.len = U32_MAX + 1

\* C12: for address and length within u32, reading bits 0..31 and bits 32..63 of the
\* handle to_host_ptr returns gives back exactly the address and the length, also when
\* the handle is negative as an i64.
C12_RoundTrip ==
    (last.op = "to_host_ptr" /\ last.ptr <= U32_MAX /\ last.len <= U32_MAX) =>
        /\ last.res = "Ok"
        /\ decode(last.h) = <<last.ptr, last.len>>
\* a handle with the top bit of the length set, so negative, has been returned for an
\* address that has its own top bit set
C12_Witness ==
    /\ last.op = "to_host_ptr" /\ last.res = "Ok"
    /\ last.len = U32_MAX /\ last.ptr = U32_MAX - 1
    /\ last.h < 0

\* where the buffer at address a stands: registered in a table, handed to a caller as
\* a Vec (reclaimed and owned), or not a buffer at all
Stage(G, o, a) ==
    IF \E t \in Threads : a \in DOMAIN G[t] THEN "tracked"
    ELSE IF \E v \in o : v.ptr = a THEN "reclaimed"
    ELSE "unallocated"
\* the steps of a buffer's life: alloc registers it, a reclaim hands it out, and the
\* owner's drop ends it; the address is then free for another buffer
LifecycleSteps ==
    {<<"unallocated", "tracked">>, <<"tracked", "reclaimed">>, <<"reclaimed", "unallocated">>}
\* from_host_ptr reclaims the buffer at a and drops it before it returns
ReclaimedAndDropped(l, a) ==
    l.op = "from_host_ptr" /\ l.res \in {"Ok", "Deserialization"} /\ l.key = a

\* C13: a buffer only moves from unallocated to tracked (alloc), from tracked to
\* reclaimed (a successful reclaim) and from there out of existence (drop); a reclaimed
\* buffer is never tracked again, no buffer is reclaimed that was not tracked, and an
\* address is registered by alloc only when no live buffer is at it.
C13_Lifecycle ==
    [][\A a \in Cells :
          /\ ~((\E t \in Threads : a \in DOMAIN GLOBAL_STORE'[t]) /\ (\E v \in owned' : v.ptr = a))
          /\ \/ Stage(GLOBAL_STORE', owned', a) = Stage(GLOBAL_STORE, owned, a)
             \/ <<Stage(GLOBAL_STORE, owned, a), Stage(GLOBAL_STORE', owned', a)>> \in LifecycleSteps
             \/ /\ Stage(GLOBAL_STORE, owned, a) = "tracked"
                /\ Stage(GLOBAL_STORE', owned', a) = "unallocated"
                /\ ReclaimedAndDropped(last', a)]_vars
\* alloc has returned an address that was reclaimed and freed since the alloc before
\* it, while another reclaimed buffer is still owned
C13_Witness ==
    /\ last.op = "alloc" /\ last.res = "ok" /\ last.again
    /\ last.ptr \in Tracked
    /\ owned # {}

C15_RecordOverwrites ==
    (last.op = "insert" /\ last.ptr \in DOMAIN last.pre[last.t]) =>
        /\ GLOBAL_STORE[last.t][last.ptr] = last.len
        /\ DOMAIN GLOBAL_STORE[last.t] = DOMAIN last.pre[last.t]
        /\ Cardinality(DOMAIN GLOBAL_STORE[last.t]) = Cardinality(DOMAIN last.pre[last.t])
        /\ \A a \in DOMAIN last.pre[last.t] \ {last.ptr} :
              GLOBAL_STORE[last.t][a] = last.pre[last.t][a]
        /\ alive[last.t] /\ last.res \notin Fatal
\* an address registered with one length has been registered again with a larger one,
\* next to an entry for another address
C15_Witness ==
    /\ last.op = "insert" /\ last.ptr \in DOMAIN last.pre[last.t]
    /\ last.pre[last.t][last.ptr] < last.len
    /\ DOMAIN last.pre[last.t] # {last.ptr}

\* C16: to_host_ptr, whether it returns Ok or IntegerConversion, leaves every table as
\* it found it: no entry added, removed or changed, so the address it encoded is
\* tracked afterwards only if it was tracked before.
C16_EncodeLeavesTracker ==
    last.op = "to_host_ptr" =>
        /\ GLOBAL_STORE = last.pre
        /\ last.ptr \in Tracked => last.ptr \in DOMAIN last.pre[last.t]
\* to_host_ptr has encoded an address that is not tracked while another address is
C16_Witness ==
    /\ last.op = "to_host_ptr" /\ last.res = "Ok"
    /\ last.ptr \notin Tracked
    /\ Tracked # {}

\* C17: the Vec a successful reclaim builds has length and capacity equal to the length
\* alloc recorded for the address, whatever the handle's length field says, so the
\* region released when the Vec is dropped is the region that was allocated.
C17_VecSizedByRecord ==
    /\ (last.op \in Reclaims /\ last.res \in Reclaimed) =>
          /\ last.len = last.pre[last.t][last.key]
          /\ last.cap = last.pre[last.t][last.key]
          /\ last.cap = last.heap0[last.key]
    /\ \A v \in owned : v.len = v.cap /\ v.ptr \in DOMAIN heap /\ heap[v.ptr] = v.cap
\* a handle whose length field is neither zero nor the recorded length has been reclaimed
C17_Witness ==
    /\ last.op \in Reclaims /\ last.res \in Reclaimed
    /\ decode(last.h)[2] \notin {0, last.len}
    /\ decode(last.h)[1] = last.ptr

\* C18: a successful alloc leaves every entry that existed before it unchanged, and a
\* successful reclaim of an address removes that address's entry and no other; the
\* tables of the other threads are not touched by either.
C18_OtherEntriesKept ==
    /\ (last.op = "alloc" /\ last.res = "ok") =>
          /\ \A a \in DOMAIN last.pre[last.t] :
                a \in DOMAIN GLOBAL_STORE[last.t]
                /\ GLOBAL_STORE[last.t][a] = last.pre[last.t][a]
          /\ DOMAIN GLOBAL_STORE[last.t] = DOMAIN last.pre[last.t] \cup {last.ptr}
    /\ (last.op \in Reclaims /\ last.res \in Reclaimed) =>
          /\ DOMAIN GLOBAL_STORE[last.t] = DOMAIN last.pre[last.t] \ {last.key}
          /\ \A a \in DOMAIN GLOBAL_STORE[last.t] :
                GLOBAL_STORE[last.t][a] = last.pre[last.t][a]
    /\ last.op \in Reclaims \cup {"alloc"} =>
          \A u \in Threads \ {last.t} : GLOBAL_STORE[u] = last.pre[u]
\* from_host_ptr has reclaimed one address while another stays tracked
C18_Witness ==
    /\ last.op = "from_host_ptr" /\ last.res \in Reclaimed
    /\ last.key \in DOMAIN last.pre[last.t]
    /\ DOMAIN GLOBAL_STORE[last.t] # {}

\* C19: every entry of every table has an address that is not null and a length of at
\* least 1 and at most isize::MAX of the build.
C19_EntriesWellFormed ==
    \A t \in Threads : \A a \in DOMAIN GLOBAL_STORE[t] :
        /\ a # 0
        /\ GLOBAL_STORE[t][a] >= 1
        /\ GLOBAL_STORE[t][a] <= IsizeMax(ptrBits)
\* on the narrow build an alloc of isize::MAX bytes has been registered next to another
\* entry
C19_Witness ==
    /\ ptrBits = HalfBits
    /\ last.op = "alloc" /\ last.res = "ok"
    /\ last.len = IsizeMax(ptrBits)
    /\ last.ptr \in DOMAIN GLOBAL_STORE[last.t]
    /\ Cardinality(Tracked) = 2

====
